---- MODULE Spec2Model ----
(***************************************************************************)
(* Reminder scheduling and delivery engine of the invoice generator:       *)
(* ReminderScheduler (derivation, processDue, the dispatch state machine), *)
(* the ReminderSystem command surface, and the payment events that reach   *)
(* it.  Time is counted in whole minutes since day 0, 00:00.               *)
(***************************************************************************)
EXTENDS Integers, Sequences, FiniteSets, TLC

\* ---------------------------------------------------------------- bounds
MaxLedger == 2
MaxTicks == 2
MaxRetryTicks == 3
InvoiceTotal == 2
MaxDerived == 5
MaxDayTicks == 3

\* ------------------------------------------------------- program constants
MinutesPerDay == 24 * 60
maxRetries == 3
Undefined == -1

InvoiceIds == {1, 2}
ReminderTypes == {"beforeDue", "onDue", "afterDue"}
TickSteps == {4}
PayAmounts == {1, InvoiceTotal}
StartTime == MinutesPerDay + 16 * 60 + 56   \* day 1, 16:56
DueDay == <<0, 0>>                          \* due date (day number) of each invoice
InitialPaid == <<0, InvoiceTotal>>          \* invoice 1 is overdue and unpaid, invoice 2 is paid

VARIABLES
    now,        \* the wall clock (minutes)
    ticks,      \* number of clock advances so far
    settings,   \* dataStore.getReminderSettings()
    invoices,   \* stored invoices, by id
    ledger,     \* stored reminders; a reminder's id is its index
    inflight,   \* processReminder calls suspended at the await of the e-mail send
    sends,      \* successful Notification Channel sends, per invoice
    alerts      \* what ReminderSystem.sendManualReminder has shown its caller

vars == <<now, ticks, settings, invoices, ledger, inflight, sends, alerts>>

Terminal == {"sent", "failed", "cancelled"}

\* ------------------------------------------------------------- settings
ReminderSettings(gating) ==
    [enabled |-> TRUE, beforeDueDays |-> <<1>>, afterDueDays |-> <<1>>, maxReminders |-> 2,
     bhEnabled |-> gating, bhStart |-> 9 * 60, bhEnd |-> 17 * 60]

\* ------------------------------------------------------------ data store
getInvoice(id) == invoices[id]

Exists(id) == invoices[id].exists

ReminderHistory(inv) == inv.reminderHistory

\* the Reminder Ledger: append assigns the next id, update replaces by id
addReminder(led, r) == Append(led, r)

updateReminder(led, id, r) == [led EXCEPT ![id] = r]

\* ------------------------------------------------------------ derivation
DueMinute(inv) == inv.dueDate * MinutesPerDay

hasReminderBeenSent(reminderHistory, type, days) ==
    \E k \in DOMAIN reminderHistory :
        /\ reminderHistory[k].type = type
        /\ (days = Undefined \/ reminderHistory[k].days = days)

\* scheduleReminder: the record dataStore.addReminder stores
scheduleReminder(invoiceId, type, scheduledDate, days) ==
    [invoiceId |-> invoiceId, type |-> type, days |-> days, status |-> "scheduled",
     attempts |-> 0, nextAttempt |-> scheduledDate, error |-> "none", manual |-> FALSE]

\* one dataStore.addReminder call per derived reminder
RECURSIVE addReminders(_, _)
addReminders(led, new) ==
    IF new = << >> THEN led ELSE addReminders(addReminder(led, Head(new)), Tail(new))

\* a before-due rule that also accepts a target equal to the evaluation time
RECURSIVE BeforeDue_inclusive(_, _, _, _)
BeforeDue_inclusive(id, inv, daysList, t) ==
    IF daysList = << >> THEN << >>
    ELSE LET days == Head(daysList)
             reminderDate == DueMinute(inv) - days * MinutesPerDay
         IN  (IF reminderDate >= t /\ ~hasReminderBeenSent(ReminderHistory(inv), "beforeDue", days)
              THEN <<scheduleReminder(id, "beforeDue", reminderDate, days)>>
              ELSE << >>)
             \o BeforeDue_inclusive(id, inv, Tail(daysList), t)

RECURSIVE BeforeDue(_, _, _, _)
BeforeDue(id, inv, daysList, t) ==
    IF daysList = << >> THEN << >>
    ELSE LET days == Head(daysList)
             reminderDate == DueMinute(inv) - days * MinutesPerDay
         IN  (IF reminderDate > t /\ ~hasReminderBeenSent(ReminderHistory(inv), "beforeDue", days)
              THEN <<scheduleReminder(id, "beforeDue", reminderDate, days)>>
              ELSE << >>)
             \o BeforeDue(id, inv, Tail(daysList), t)

OnDue(id, inv, t) ==
    IF DueMinute(inv) >= t /\ ~hasReminderBeenSent(ReminderHistory(inv), "onDue", Undefined)
    THEN <<scheduleReminder(id, "onDue", DueMinute(inv), Undefined)>>
    ELSE << >>

\* an after-due rule that waits until the target has elapsed
RECURSIVE AfterDue_onlyElapsed(_, _, _)
AfterDue_onlyElapsed(id, inv, daysList) ==
    IF daysList = << >> THEN << >>
    ELSE LET days == Head(daysList)
             reminderDate == DueMinute(inv) + days * MinutesPerDay
         IN  (IF reminderDate <= now /\ ~hasReminderBeenSent(ReminderHistory(inv), "afterDue", days)
              THEN <<scheduleReminder(id, "afterDue", reminderDate, days)>>
              ELSE << >>)
             \o AfterDue_onlyElapsed(id, inv, Tail(daysList))

RECURSIVE AfterDue(_, _, _)
AfterDue(id, inv, daysList) ==
    IF daysList = << >> THEN << >>
    ELSE LET days == Head(daysList)
             reminderDate == DueMinute(inv) + days * MinutesPerDay
         IN  (IF ~hasReminderBeenSent(ReminderHistory(inv), "afterDue", days)
              THEN <<scheduleReminder(id, "afterDue", reminderDate, days)>>
              ELSE << >>)
             \o AfterDue(id, inv, Tail(daysList))

\* scheduleRemindersForInvoice(invoice, settings): the reminders it appends
scheduleRemindersForInvoice(id, inv, s, t) ==
    BeforeDue(id, inv, s.beforeDueDays, t) \o OnDue(id, inv, t) \o AfterDue(id, inv, s.afterDueDays)

shouldScheduleReminders(inv, s) ==
    /\ inv.status # "paid"
    /\ ~(inv.status = "draft" /\ inv.dueDate = Undefined)
    /\ Len(ReminderHistory(inv)) < s.maxReminders

\* the payments of a stored invoice: none, or the one payment of the sample data
samplePayments(amount) == IF amount > 0 THEN <<[id |-> 1, amount |-> amount]>> ELSE << >>

\* ------------------------------------------------------------------ Init
InitWith(gating) ==
    /\ now = StartTime
    /\ ticks = 0
    /\ settings = ReminderSettings(gating)
    /\ invoices = [i \in InvoiceIds |->
                      [exists |-> TRUE, dueDate |-> DueDay[i], reminderHistory |-> << >>,
                       totalPaid |-> InitialPaid[i], total |-> InvoiceTotal,
                       paidAmount |-> InitialPaid[i],
                       remainingAmount |-> InvoiceTotal - InitialPaid[i],
                       paymentHistory |-> samplePayments(InitialPaid[i]),
                       status |-> IF InitialPaid[i] >= InvoiceTotal THEN "paid" ELSE "overdue"]]
    /\ ledger = << >>
    /\ inflight = {}
    /\ sends = [i \in InvoiceIds |-> 0]
    /\ alerts = {}

Init == InitWith(TRUE)

InitNoGating == InitWith(FALSE)

\* --------------------------------------------------------------- actions
Tick(d, max) ==
    /\ ticks < max
    /\ now' = now + d
    /\ ticks' = ticks + 1
    /\ UNCHANGED <<settings, invoices, ledger, inflight, sends, alerts>>

\* ReminderSystem.scheduleRemindersForInvoice(invoiceId)
ScheduleForInvoice(id, cap) ==
    /\ Exists(id)
    /\ settings.enabled
    /\ LET new == scheduleRemindersForInvoice(id, getInvoice(id), settings, now)
       IN  /\ new # << >>
           /\ Len(ledger) + Len(new) <= cap
           /\ ledger' = addReminders(ledger, new)
    /\ UNCHANGED <<now, ticks, settings, invoices, inflight, sends, alerts>>

\* ReminderScheduler.scheduleRemindersForUnpaidInvoices: the hourly scan
RECURSIVE DeriveAll(_, _, _)
DeriveAll(ids, s, t) ==
    IF ids = {} THEN << >>
    ELSE LET id == CHOOSE x \in ids : \A y \in ids : x <= y
         IN  (IF Exists(id) /\ shouldScheduleReminders(getInvoice(id), s)
              THEN scheduleRemindersForInvoice(id, getInvoice(id), s, t)
              ELSE << >>)
             \o DeriveAll(ids \ {id}, s, t)

ScheduleRemindersForUnpaidInvoices(cap) ==
    /\ settings.enabled
    /\ LET new == DeriveAll(InvoiceIds, settings, now)
       IN  /\ new # << >>
           /\ Len(ledger) + Len(new) <= cap
           /\ ledger' = addReminders(ledger, new)
    /\ UNCHANGED <<now, ticks, settings, invoices, inflight, sends, alerts>>

\* a cancellation that forgets the invoice filter
cancelScheduledReminders_anyInvoice(led, invoiceId) ==
    [k \in DOMAIN led |->
        IF led[k].status = "scheduled" THEN [led[k] EXCEPT !.status = "cancelled"] ELSE led[k]]

\* a cancellation that takes in reminders that have already ended
cancelScheduledReminders_everyStatus(led, invoiceId) ==
    [k \in DOMAIN led |->
        IF led[k].invoiceId = invoiceId /\ led[k].status \in {"scheduled", "sent", "failed"}
        THEN [led[k] EXCEPT !.status = "cancelled"]
        ELSE led[k]]

\* ReminderScheduler.cancelScheduledReminders(invoiceId): the ledger afterwards
cancelScheduledReminders(led, invoiceId) ==
    [k \in DOMAIN led |->
        IF led[k].invoiceId = invoiceId /\ led[k].status = "scheduled"
        THEN [led[k] EXCEPT !.status = "cancelled"]
        ELSE led[k]]

\* a count that takes in every unfinished reminder of the invoice
cancelledCount_nonTerminal(led, invoiceId) ==
    Cardinality({k \in DOMAIN led : led[k].invoiceId = invoiceId /\ led[k].status \notin Terminal})

\* ... and the number it returns
cancelledCount(led, invoiceId) ==
    Cardinality({k \in DOMAIN led : led[k].invoiceId = invoiceId /\ led[k].status = "scheduled"})

\* ReminderSystem.cancelRemindersForInvoice(invoiceId)
CancelForInvoice(id) ==
    /\ cancelledCount(ledger, id) > 0
    /\ ledger' = cancelScheduledReminders(ledger, id)
    /\ UNCHANGED <<now, ticks, settings, invoices, inflight, sends, alerts>>

\* ReminderSystem.scheduleRemindersForInvoice(invoiceId): the reminders it derives
derivedForInvoice(id) ==
    IF Exists(id) /\ settings.enabled
    THEN scheduleRemindersForInvoice(id, getInvoice(id), settings, now)
    ELSE << >>

\* a reschedule that forgets to cancel
rescheduleRemindersForInvoice_noCancel(led, id) ==
    addReminders(led, derivedForInvoice(id))

\* ReminderSystem.rescheduleRemindersForInvoice(invoiceId): the ledger afterwards
rescheduleRemindersForInvoice(led, id) ==
    addReminders(cancelScheduledReminders(led, id), derivedForInvoice(id))

RescheduleForInvoice(id) ==
    /\ cancelledCount(ledger, id) > 0
    /\ Len(ledger) + Len(derivedForInvoice(id)) <= MaxLedger
    /\ ledger' = rescheduleRemindersForInvoice(ledger, id)
    /\ UNCHANGED <<now, ticks, settings, invoices, inflight, sends, alerts>>

\* --------------------------------------------------------------- dispatch
MinuteOfDay(t) == t % MinutesPerDay

isWithinBusinessHours(s, t) ==
    \/ ~s.bhEnabled
    \/ MinuteOfDay(t) >= s.bhStart /\ MinuteOfDay(t) <= s.bhEnd

\* rescheduleToBusinessHours: tomorrow at the start of business
nextBusinessDay(s, t) == ((t \div MinutesPerDay) + 1) * MinutesPerDay + s.bhStart

plusOne(a) == IF a = Undefined THEN Undefined ELSE a + 1

\* processReminder without the paid short-circuit
gate_noPaidCheck(r, t) ==
    IF ~Exists(r.invoiceId) THEN "notFound"
    ELSE IF ~isWithinBusinessHours(settings, t) THEN "deferred"
    ELSE "attempt"

\* processReminder without the invoice-not-found check
gate_noNotFoundCheck(r, t) ==
    IF getInvoice(r.invoiceId).status = "paid" THEN "paid"
    ELSE IF ~isWithinBusinessHours(settings, t) THEN "deferred"
    ELSE "attempt"

\* processReminder up to its await: the branch it takes
gate(r, t) ==
    IF ~Exists(r.invoiceId) THEN "notFound"
    ELSE IF getInvoice(r.invoiceId).status = "paid" THEN "paid"
    ELSE IF ~isWithinBusinessHours(settings, t) THEN "deferred"
    ELSE "attempt"

\* a deferral that is counted as an attempt
processReminderSync_deferralCounts(r, t) ==
    CASE gate(r, t) = "notFound" -> [r EXCEPT !.status = "cancelled", !.error = "Invoice not found"]
      [] gate(r, t) = "paid"     -> [r EXCEPT !.status = "cancelled"]
      [] gate(r, t) = "deferred" -> [r EXCEPT !.nextAttempt = nextBusinessDay(settings, t),
                                              !.attempts = plusOne(r.attempts)]
      [] OTHER                   -> [r EXCEPT !.status = "pending", !.attempts = plusOne(r.attempts)]

\* ... and what the stored reminder becomes
processReminderSync(r, t) ==
    CASE gate(r, t) = "notFound" -> [r EXCEPT !.status = "cancelled", !.error = "Invoice not found"]
      [] gate(r, t) = "paid"     -> [r EXCEPT !.status = "cancelled"]
      [] gate(r, t) = "deferred" -> [r EXCEPT !.nextAttempt = nextBusinessDay(settings, t)]
      [] OTHER                   -> [r EXCEPT !.status = "pending", !.attempts = plusOne(r.attempts)]

\* does processReminder reach the e-mail send for this reminder
Dispatches(r, t) == gate(r, t) = "attempt"

\* the suspended call: the reminder and invoice objects it holds
Attempt(k, r) ==
    [id |-> k, invoiceId |-> r.invoiceId, attempts |-> r.attempts,
     hist |-> ReminderHistory(getInvoice(r.invoiceId))]

\* a selection that skips a reminder whose time has already gone by
IsDue_notYet(r, t) == r.status = "scheduled" /\ r.nextAttempt >= t

IsDue(r, t) == r.status = "scheduled" /\ r.nextAttempt <= t

dueReminders == {k \in DOMAIN ledger : IsDue(ledger[k], now)}

\* ReminderScheduler.processDueReminders
ProcessDueReminders ==
    /\ dueReminders # {}
    /\ ledger' = [k \in DOMAIN ledger |->
                    IF k \in dueReminders THEN processReminderSync(ledger[k], now) ELSE ledger[k]]
    /\ inflight' = inflight \cup
                    {Attempt(k, ledger[k]) : k \in {j \in dueReminders : Dispatches(ledger[j], now)}}
    /\ UNCHANGED <<now, ticks, settings, invoices, sends, alerts>>

\* addToInvoiceReminderHistory + dataStore.updateInvoice
addToInvoiceReminderHistory(invs, a, r) ==
    IF invs[a.invoiceId].exists
    THEN [invs EXCEPT ![a.invoiceId].reminderHistory =
              Append(a.hist, [id |-> a.id, type |-> r.type, days |-> r.days])]
    ELSE invs

\* ReminderSystem.sendManualReminder: the alert shown once the scheduler's promise
\* has settled (rejected only when sendManualReminder threw 'Invoice not found')
showAlert(shown, reminderId, thrown) ==
    shown \cup {[reminder |-> reminderId, kind |-> IF thrown THEN "error" ELSE "success"]}

\* the promise of a manual reminder settles when processReminder returns
settle(shown, led, reminderId) ==
    IF led[reminderId].manual THEN showAlert(shown, reminderId, FALSE) ELSE shown

\* processReminder after the await, the send having succeeded
DeliverySucceeds(a) ==
    /\ a \in inflight
    /\ alerts' = settle(alerts, ledger, a.id)
    /\ ledger' = updateReminder(ledger, a.id, [ledger[a.id] EXCEPT !.status = "sent"])
    /\ invoices' = addToInvoiceReminderHistory(invoices, a, ledger[a.id])
    /\ sends' = [sends EXCEPT ![a.invoiceId] = @ + 1]
    /\ inflight' = inflight \ {a}
    /\ UNCHANGED <<now, ticks, settings>>

lessThan(a, n) == a # Undefined /\ a < n

\* a back-off that starts at two minutes
retryDelay_doubled(attempts) == 2 ^ (attempts + 1)

\* Math.pow(2, reminder.attempts) minutes
retryDelay(attempts) == 2 ^ attempts

\* a catch block that reads the stored attempt count instead of the one it was called with
onFailure_storedAttempts(r, a, t) ==
    IF lessThan(r.attempts, maxRetries)
    THEN [r EXCEPT !.status = "scheduled", !.nextAttempt = t + retryDelay(r.attempts),
                   !.error = "send failed"]
    ELSE [r EXCEPT !.status = "failed", !.error = "send failed"]

\* the catch block of processReminder
onFailure(r, a, t) ==
    IF lessThan(a.attempts, maxRetries)
    THEN [r EXCEPT !.status = "scheduled", !.nextAttempt = t + retryDelay(a.attempts),
                   !.error = "send failed"]
    ELSE [r EXCEPT !.status = "failed", !.error = "send failed"]

\* a rejection that takes the whole batch down with it
recordFailure_wholeBatch(led, a, t) ==
    [k \in DOMAIN led |->
        IF led[k].status = "pending"
        THEN [led[k] EXCEPT !.status = "failed", !.error = "send failed"]
        ELSE led[k]]

\* the catch block writes to the one reminder whose send was rejected
recordFailure(led, a, t) == updateReminder(led, a.id, onFailure(led[a.id], a, t))

\* processReminder after the await, the send having been rejected
DeliveryFails(a) ==
    /\ a \in inflight
    /\ ledger' = recordFailure(ledger, a, now)
    /\ inflight' = inflight \ {a}
    /\ alerts' = settle(alerts, ledger, a.id)
    /\ UNCHANGED <<now, ticks, settings, invoices, sends>>

\* ReminderScheduler.sendManualReminder(invoiceId, reminderType)
manualReminder(invoiceId, type) ==
    [invoiceId |-> invoiceId, type |-> type, days |-> Undefined, status |-> "manual",
     attempts |-> Undefined, nextAttempt |-> Undefined, error |-> "none", manual |-> TRUE]

SendManualReminder(id, type) ==
    /\ Len(ledger) < MaxLedger
    /\ IF ~Exists(id)
       THEN /\ alerts' = showAlert(alerts, 0, TRUE)
            /\ UNCHANGED <<ledger, inflight>>
       ELSE LET r == manualReminder(id, type)
                k == Len(ledger) + 1
            IN  /\ ledger' = addReminder(ledger, processReminderSync(r, now))
                /\ inflight' = IF Dispatches(r, now) THEN inflight \cup {Attempt(k, r)} ELSE inflight
                /\ alerts' = IF Dispatches(r, now) THEN alerts ELSE showAlert(alerts, k, FALSE)
    /\ UNCHANGED <<now, ticks, settings, invoices, sends>>

\* a payment that raises no cancelReminders event
cancelOnPayment_noEvent(led, id, paid) == led

\* recordPayment raises the cancelReminders event when the invoice becomes fully paid
cancelOnPayment(led, id, paid) == IF paid THEN cancelScheduledReminders(led, id) ELSE led

\* PaymentManager.recordPayment(invoiceId, paymentData)
RecordPayment(id, amount) ==
    /\ Exists(id)
    /\ getInvoice(id).totalPaid < InvoiceTotal
    /\ LET totalPaid == getInvoice(id).totalPaid + amount
           paid == totalPaid >= InvoiceTotal
       IN  /\ ledger' = cancelOnPayment(ledger, id, paid)
           /\ invoices' = [invoices EXCEPT ![id].totalPaid = totalPaid,
                                           ![id].status = IF paid THEN "paid" ELSE @]
    /\ UNCHANGED <<now, ticks, settings, inflight, sends, alerts>>

Next ==
    \/ \E d \in TickSteps : Tick(d, MaxTicks)
    \/ \E id \in InvoiceIds : ScheduleForInvoice(id, MaxLedger)
    \/ ScheduleRemindersForUnpaidInvoices(MaxLedger)
    \/ \E id \in InvoiceIds : CancelForInvoice(id)
    \/ \E id \in InvoiceIds : RescheduleForInvoice(id)
    \/ ProcessDueReminders
    \/ \E a \in inflight : DeliverySucceeds(a)
    \/ \E a \in inflight : DeliveryFails(a)
    \/ \E id \in InvoiceIds, type \in ReminderTypes : SendManualReminder(id, type)
    \/ \E id \in InvoiceIds, amount \in PayAmounts : RecordPayment(id, amount)

Spec == Init /\ [][Next]_vars

\* The Notification Channel rejects every send; business-hours gating is off.
NextAlwaysFail ==
    \/ \E d \in TickSteps : Tick(d, MaxRetryTicks)
    \/ ScheduleRemindersForUnpaidInvoices(MaxLedger)
    \/ ProcessDueReminders
    \/ \E a \in inflight : DeliveryFails(a)

SpecAlwaysFail == InitNoGating /\ [][NextAlwaysFail]_vars

\* The derivation scenario: the policy {before 7, 3; after 1, 7; business hours
\* off}, invoices due on day 10, the clock starting on day 1 and moving in days.
ExamplePolicy(maxReminders) ==
    [enabled |-> TRUE, beforeDueDays |-> <<7, 3>>, afterDueDays |-> <<1, 7>>,
     maxReminders |-> maxReminders, bhEnabled |-> FALSE, bhStart |-> 9 * 60, bhEnd |-> 17 * 60]

MaxRemindersChoices == {2, 10}

DaySteps == {1, 8}

Day(n) == n * MinutesPerDay

ExampleDueDay == <<10, 10>>

InitDerivation ==
    /\ now = Day(1)
    /\ ticks = 0
    /\ \E m \in MaxRemindersChoices : settings = ExamplePolicy(m)
    /\ invoices = [i \in InvoiceIds |->
                      [exists |-> TRUE, dueDate |-> ExampleDueDay[i], reminderHistory |-> << >>,
                       totalPaid |-> InitialPaid[i], total |-> InvoiceTotal,
                       paidAmount |-> InitialPaid[i],
                       remainingAmount |-> InvoiceTotal - InitialPaid[i],
                       paymentHistory |-> samplePayments(InitialPaid[i]),
                       status |-> IF InitialPaid[i] >= InvoiceTotal THEN "paid" ELSE "sent"]]
    /\ ledger = << >>
    /\ inflight = {}
    /\ sends = [i \in InvoiceIds |-> 0]
    /\ alerts = {}

NextDerivation ==
    \/ \E d \in DaySteps : Tick(Day(d), MaxDayTicks)
    \/ \E id \in InvoiceIds : ScheduleForInvoice(id, MaxDerived)
    \/ ScheduleRemindersForUnpaidInvoices(MaxDerived)
    \/ ProcessDueReminders
    \/ \E a \in inflight : DeliverySucceeds(a)

SpecDerivation == InitDerivation /\ [][NextDerivation]_vars

\* DataStore.deleteInvoice(invoiceId)
DeleteInvoice(id) ==
    /\ Exists(id)
    /\ invoices' = [invoices EXCEPT ![id].exists = FALSE]
    /\ UNCHANGED <<now, ticks, settings, ledger, inflight, sends, alerts>>

\* Invoices are deleted while their reminders are in the ledger.
NextDeletion ==
    \/ \E d \in TickSteps : Tick(d, MaxTicks)
    \/ \E id \in InvoiceIds : ScheduleForInvoice(id, MaxLedger)
    \/ \E id \in InvoiceIds : DeleteInvoice(id)
    \/ ProcessDueReminders
    \/ \E a \in inflight : DeliverySucceeds(a)
    \/ \E a \in inflight : DeliveryFails(a)

SpecDeletion == Init /\ [][NextDeletion]_vars

\* ------------------------------------------------------------ payments
PaymentAmounts == (0 - 1)..(InvoiceTotal + 1)

\* the id of the sample payment, and an id no payment has
PaymentIds == {1, 9}

RECURSIVE sumAmounts(_)
sumAmounts(history) ==
    IF history = << >> THEN 0 ELSE Head(history).amount + sumAmounts(Tail(history))

indexOfPayment(history, paymentId) ==
    IF \E n \in DOMAIN history : history[n].id = paymentId
    THEN CHOOSE n \in DOMAIN history :
            /\ history[n].id = paymentId
            /\ \A m \in DOMAIN history : history[m].id = paymentId => n <= m
    ELSE Undefined

\* the status workflow of the store
statusWorkflow ==
    [draft |-> {"sent", "paid"}, sent |-> {"paid", "overdue", "draft"},
     paid |-> {"sent"}, overdue |-> {"paid", "sent"}]

isValidStatusTransition(fromStatus, toStatus) ==
    fromStatus \in DOMAIN statusWorkflow /\ toStatus \in statusWorkflow[fromStatus]

\* does DataStore.addPayment throw before it writes
addPaymentRejects(inv, amount) ==
    \/ ~inv.exists
    \/ amount <= 0
    \/ inv.paidAmount + amount > inv.total

\* DataStore.addPayment: the payment is pushed onto the paymentHistory of the copy
\* that getInvoice returned; updateData, which updateInvoice merges into the
\* stored invoice, holds paidAmount, remainingAmount and the status only
addPayment(inv, amount, paymentId) ==
    LET newPaidAmount == inv.paidAmount + amount
    IN  [inv EXCEPT !.paidAmount = newPaidAmount,
                    !.remainingAmount = inv.total - newPaidAmount,
                    !.status = IF newPaidAmount >= inv.total THEN "paid"
                               ELSE IF @ = "draft" THEN "sent" ELSE @]

\* does DataStore.removePayment throw before it writes
removePaymentRejects(inv, paymentId) ==
    \/ ~inv.exists
    \/ indexOfPayment(inv.paymentHistory, paymentId) = Undefined

max(a, b) == IF a >= b THEN a ELSE b

\* DataStore.removePayment: the payment is spliced out of the copy; updateData
\* holds paidAmount, remainingAmount and the status only
removePayment(inv, paymentId) ==
    LET payment == inv.paymentHistory[indexOfPayment(inv.paymentHistory, paymentId)]
        newPaidAmount == inv.paidAmount - payment.amount
    IN  [inv EXCEPT !.paidAmount = max(0, newPaidAmount),
                    !.remainingAmount = inv.total - max(0, newPaidAmount),
                    !.status = IF @ = "paid" /\ newPaidAmount < inv.total THEN "sent" ELSE @]

\* DataStore.updateInvoice: throws on a status transition the workflow forbids
updateInvoice(invs, id, inv) ==
    IF inv.status # invs[id].status /\ ~isValidStatusTransition(invs[id].status, inv.status)
    THEN invs
    ELSE [invs EXCEPT ![id] = inv]

AddPayment(id, amount) ==
    /\ invoices' = IF addPaymentRejects(getInvoice(id), amount) THEN invoices
                   ELSE updateInvoice(invoices, id,
                            addPayment(getInvoice(id), amount,
                                       Len(getInvoice(id).paymentHistory) + 2))
    /\ UNCHANGED <<now, ticks, settings, ledger, inflight, sends, alerts>>

RemovePayment(id, paymentId) ==
    /\ invoices' = IF removePaymentRejects(getInvoice(id), paymentId) THEN invoices
                   ELSE updateInvoice(invoices, id, removePayment(getInvoice(id), paymentId))
    /\ UNCHANGED <<now, ticks, settings, ledger, inflight, sends, alerts>>

\* stored invoices as createInvoice and the sample data leave them: nothing paid
\* (draft, sent or overdue), or one payment in the history (part or all of the total)
StoredInvoices ==
    {[exists |-> TRUE, dueDate |-> 0, reminderHistory |-> << >>, totalPaid |-> 0,
      total |-> InvoiceTotal, paidAmount |-> paid, remainingAmount |-> InvoiceTotal - paid,
      paymentHistory |-> samplePayments(paid), status |-> status] :
        paid \in {0}, status \in {"draft", "sent", "overdue"}}
    \cup
    {[exists |-> TRUE, dueDate |-> 0, reminderHistory |-> << >>, totalPaid |-> 0,
      total |-> InvoiceTotal, paidAmount |-> paid, remainingAmount |-> InvoiceTotal - paid,
      paymentHistory |-> samplePayments(paid),
      status |-> IF paid >= InvoiceTotal THEN "paid" ELSE "sent"] :
        paid \in {1, InvoiceTotal}}

InitPayments ==
    /\ now = StartTime
    /\ ticks = 0
    /\ settings = ReminderSettings(TRUE)
    /\ invoices \in [InvoiceIds -> StoredInvoices]
    /\ ledger = << >>
    /\ inflight = {}
    /\ sends = [i \in InvoiceIds |-> 0]
    /\ alerts = {}

NextPayments ==
    \/ \E id \in InvoiceIds, amount \in PaymentAmounts : AddPayment(id, amount)
    \/ \E id \in InvoiceIds, paymentId \in PaymentIds : RemovePayment(id, paymentId)
    \/ \E id \in InvoiceIds : DeleteInvoice(id)

SpecPayments == InitPayments /\ [][NextPayments]_vars

\* ------------------------------------------------ the running scheduler
\* business windows: a day window, and one whose start is later than its end
BusinessWindows == {<<9 * 60, 17 * 60>>, <<22 * 60, 6 * 60>>}

\* the scheduler is started inside or after the day window
StartTimes == {StartTime, MinutesPerDay + 18 * 60}

IntervalMinutes == 1

\* The program reads the clock only as a minute of the day and compares stored
\* times with it, so a run is unchanged when every time moves back by a whole
\* day: at midnight the clock and the stored times are rebased by one day (a time
\* that is already in the past stays in the past).
rebase(t) == IF t >= MinutesPerDay THEN t - MinutesPerDay ELSE 0

rebaseReminders(led) ==
    [k \in DOMAIN led |->
        IF led[k].nextAttempt = Undefined THEN led[k]
        ELSE [led[k] EXCEPT !.nextAttempt = rebase(@)]]

\* startScheduler's initial run has derived the reminders of the unpaid invoices
InitBusinessHours ==
    /\ now \in StartTimes
    /\ ticks = 0
    /\ \E w \in BusinessWindows :
          settings = [ReminderSettings(TRUE) EXCEPT !.bhStart = w[1], !.bhEnd = w[2]]
    /\ invoices = [i \in InvoiceIds |->
                      [exists |-> TRUE, dueDate |-> DueDay[i], reminderHistory |-> << >>,
                       totalPaid |-> InitialPaid[i], total |-> InvoiceTotal,
                       paidAmount |-> InitialPaid[i],
                       remainingAmount |-> InvoiceTotal - InitialPaid[i],
                       paymentHistory |-> samplePayments(InitialPaid[i]),
                       status |-> IF InitialPaid[i] >= InvoiceTotal THEN "paid" ELSE "overdue"]]
    /\ ledger = addReminders(<< >>, DeriveAll(InvoiceIds, settings, now))
    /\ inflight = {}
    /\ sends = [i \in InvoiceIds |-> 0]
    /\ alerts = {}

\* setInterval(() => processDueReminders(), 60 * 1000): a minute goes by and the
\* due reminders are processed; a send that was started has settled by then
SchedulerInterval ==
    LET t    == now + IntervalMinutes
        midnight == t >= 2 * MinutesPerDay
        time == IF midnight THEN t - MinutesPerDay ELSE t
        led  == IF midnight THEN rebaseReminders(ledger) ELSE ledger
        due  == {k \in DOMAIN led : IsDue(led[k], time)}
    IN  /\ inflight = {}
        /\ now' = time
        /\ ledger' = [k \in DOMAIN led |->
                        IF k \in due THEN processReminderSync(led[k], time) ELSE led[k]]
        /\ inflight' = inflight \cup
                        {Attempt(k, led[k]) : k \in {j \in due : Dispatches(led[j], time)}}
        /\ UNCHANGED <<ticks, settings, invoices, sends, alerts>>

NextBusinessHours ==
    \/ SchedulerInterval
    \/ \E a \in inflight : DeliverySucceeds(a)
    \/ \E a \in inflight : DeliveryFails(a)

\* the interval timer keeps firing, and a send that was started settles
SpecBusinessHours ==
    /\ InitBusinessHours
    /\ [][NextBusinessHours]_vars
    /\ WF_vars(SchedulerInterval)
    /\ WF_vars(\E a \in inflight : DeliverySucceeds(a) \/ DeliveryFails(a))

\* Reminders are switched off and on in the settings, and a store call after a
\* successful send may throw.
\* saveReminderSettings: the enabled checkbox
SaveReminderSettings(enabled) ==
    /\ settings.enabled # enabled
    /\ settings' = [settings EXCEPT !.enabled = enabled]
    /\ UNCHANGED <<now, ticks, invoices, ledger, inflight, sends, alerts>>

BookkeepingSteps == {"updateReminder", "reminderHistory", "notification"}

\* processReminder after the await: the send succeeded, then the named call of
\* the success path threw and control went to the catch block
BookkeepingFails(a, step) ==
    /\ a \in inflight
    /\ sends' = [sends EXCEPT ![a.invoiceId] = @ + 1]
    /\ LET written == IF step = "updateReminder"
                      THEN ledger
                      ELSE updateReminder(ledger, a.id, [ledger[a.id] EXCEPT !.status = "sent"])
       IN  ledger' = recordFailure(written, a, now)
    /\ invoices' = IF step = "notification"
                   THEN addToInvoiceReminderHistory(invoices, a, ledger[a.id])
                   ELSE invoices
    /\ inflight' = inflight \ {a}
    /\ alerts' = settle(alerts, ledger, a.id)
    /\ UNCHANGED <<now, ticks, settings>>

NextFaults ==
    \/ \E d \in TickSteps : Tick(d, MaxTicks)
    \/ \E id \in InvoiceIds : ScheduleForInvoice(id, MaxLedger)
    \/ \E enabled \in BOOLEAN : SaveReminderSettings(enabled)
    \/ ProcessDueReminders
    \/ \E a \in inflight : DeliverySucceeds(a)
    \/ \E a \in inflight : DeliveryFails(a)
    \/ \E a \in inflight, step \in BookkeepingSteps : BookkeepingFails(a, step)

SpecFaults == Init /\ [][NextFaults]_vars

\* ================================================================ claims
InvoiceOf(k) == ledger[k].invoiceId

Paid(i) == invoices[i].status = "paid"

SameKey(x, y) == x.type = y.type /\ x.days = y.days

\* C1: after any sequence of processDue and derivation runs, an invoice's
\* reminderHistory holds at most one entry per (invoiceId, type, offsetDays)
\* (entries of automatically derived reminders).
C1_NoDoubleSend ==
    \A i \in InvoiceIds :
        LET h == invoices[i].reminderHistory
        IN  \A x, y \in DOMAIN h :
                (x # y /\ ~ledger[h[x].id].manual /\ ~ledger[h[y].id].manual)
                    => ~SameKey(h[x], h[y])

\* C2: derivation is idempotent: the ledger never holds two derived reminders,
\* both waiting to be sent, with the same composite key.
C2_NoDuplicateKeys ==
    \A k, j \in DOMAIN ledger :
        (/\ k # j
         /\ ~ledger[k].manual /\ ~ledger[j].manual
         /\ ledger[k].status = "scheduled" /\ ledger[j].status = "scheduled"
         /\ InvoiceOf(k) = InvoiceOf(j))
            => ~SameKey(ledger[k], ledger[j])

\* C3 as stated: no reminder's status changes to sent while its invoice is paid,
\* an attempt in flight included.
C3_NeverSentWhilePaid ==
    [][\A k \in DOMAIN ledger :
          (ledger[k].status # "sent" /\ ledger'[k].status = "sent")
              => invoices'[InvoiceOf(k)].status # "paid"]_vars

\* C3 as amended: no delivery attempt starts while the reminder's invoice is paid
\* (a reminder becomes pending, and a call is suspended at the send, only for an
\* unpaid invoice).
C3_NoAttemptStartsWhilePaid ==
    [][/\ \A k \in DOMAIN ledger' :
             (ledger'[k].status = "pending" /\ (k \notin DOMAIN ledger \/ ledger[k].status # "pending"))
                 => ~Paid(ledger'[k].invoiceId)
       /\ \A a \in inflight' \ inflight : ~Paid(a.invoiceId)]_vars

C3_Witness ==
    \E k, j \in DOMAIN ledger :
        /\ InvoiceOf(k) = InvoiceOf(j) /\ Paid(InvoiceOf(k))
        /\ ledger[k].status = "pending"
        /\ ledger[j].manual /\ ledger[j].status = "cancelled"

\* C4: the number of entries in an invoice's reminderHistory equals the number
\* of successful Notification Channel sends for that invoice.
C4_OneAuditEntryPerSend ==
    \A i \in InvoiceIds : Len(invoices[i].reminderHistory) = sends[i]

\* C5 as stated: a processDue run leaves every reminder of a paid invoice that
\* was pending or manual (so not finished when the invoice became paid) cancelled.
C5_NextRunCancelsAll ==
    [][ProcessDueReminders =>
          \A k \in DOMAIN ledger :
              (Paid(InvoiceOf(k)) /\ ledger[k].status \in {"pending", "manual"})
                  => ledger'[k].status = "cancelled"]_vars

\* C5 as amended: the step that makes an invoice paid through recordPayment
\* cancels every scheduled reminder of it; while the invoice is paid a scheduled
\* reminder of it can only stay scheduled or become cancelled, and a processDue
\* run cancels those that are due.
C5_PaymentCancelsScheduled ==
    [][\A k \in DOMAIN ledger :
          ledger[k].status = "scheduled" =>
              /\ (~Paid(InvoiceOf(k)) /\ invoices'[InvoiceOf(k)].status = "paid")
                     => ledger'[k].status = "cancelled"
              /\ Paid(InvoiceOf(k)) => ledger'[k].status \in {"scheduled", "cancelled"}
              /\ (Paid(InvoiceOf(k)) /\ ProcessDueReminders /\ k \in dueReminders)
                     => ledger'[k].status = "cancelled"]_vars

C5_Witness ==
    \E k, j \in DOMAIN ledger :
        /\ InvoiceOf(k) = InvoiceOf(j) /\ Paid(InvoiceOf(k))
        /\ InitialPaid[InvoiceOf(k)] < InvoiceTotal
        /\ ~ledger[k].manual /\ ledger[k].status = "cancelled"
        /\ ledger[j].status = "sent"

\* C6 as stated: with a channel that always fails a reminder is attempted
\* exactly maxRetries times and is failed once the third attempt has failed.
C6_FailedAfterThreeAttempts ==
    \A k \in DOMAIN ledger :
        /\ ledger[k].attempts <= maxRetries
        /\ (ledger[k].attempts = maxRetries /\ ledger[k].status # "pending")
               => ledger[k].status = "failed"

\* C6 as amended: with a channel that always fails a reminder is attempted
\* exactly maxRetries + 1 times: it returns to scheduled after each of the first
\* maxRetries failures, is failed with attempts = maxRetries + 1 after the next,
\* and the reminderHistory stays empty.
C6_FailedAfterFourAttempts ==
    /\ \A k \in DOMAIN ledger :
           /\ ledger[k].attempts <= maxRetries + 1
           /\ ledger[k].status \in {"scheduled", "pending", "failed"}
           /\ ledger[k].status = "failed" => ledger[k].attempts = maxRetries + 1
           /\ ledger[k].status = "scheduled" => ledger[k].attempts <= maxRetries
    /\ \A i \in InvoiceIds : invoices[i].reminderHistory = << >>

C6_Witness ==
    \E k \in DOMAIN ledger :
        ledger[k].status = "failed" /\ ledger[k].attempts = maxRetries + 1

\* C7: each real attempt adds exactly 1 to attempts, each retry moves
\* nextAttempt strictly later, and a business-hours deferral moves nextAttempt
\* (later) while attempts and the status scheduled stay as they were.
C7_BackoffMonotone ==
    [][\A k \in DOMAIN ledger :
          LET r == ledger[k]
              q == ledger'[k]
          IN  /\ (r.status = "scheduled" /\ q.status = "pending") => q.attempts = r.attempts + 1
              /\ q.attempts # r.attempts => (r.status = "scheduled" /\ q.status = "pending")
              /\ (r.status = "pending" /\ q.status = "scheduled") => q.nextAttempt > r.nextAttempt
              /\ (r.status = "scheduled" /\ q.status = "scheduled" /\ q # r)
                     => (q.nextAttempt > r.nextAttempt /\ q.nextAttempt > now)]_vars

C7_Witness ==
    \E k \in DOMAIN ledger :
        /\ ledger[k].status = "scheduled"
        /\ ledger[k].attempts >= 1
        /\ ledger[k].nextAttempt = nextBusinessDay(settings, now)

\* C8: processDue invocations never overlap: a processDue run dispatches a
\* reminder only when no attempt started by an earlier run is still in flight.
C8_NoOverlap ==
    [][(\E k \in DOMAIN ledger : ledger[k].status = "scheduled" /\ ledger'[k].status = "pending")
          => \A a \in inflight : ledger[a.id].manual]_vars

\* C9: failures are isolated: a processDue run drives every due reminder
\* (each one is dispatched, cancelled or deferred), and a rejected send records
\* its error on that reminder and changes no other reminder and no other
\* suspended call.
C9_FailureIsolated ==
    [][/\ ProcessDueReminders =>
             \A k \in dueReminders :
                 \/ ledger'[k].status \in {"pending", "cancelled"}
                 \/ ledger'[k].nextAttempt > now
       /\ \A a \in inflight :
             DeliveryFails(a) =>
                 /\ ledger'[a.id].error = "send failed"
                 /\ \A k \in DOMAIN ledger : k # a.id => ledger'[k] = ledger[k]
                 /\ inflight' = inflight \ {a}]_vars

C9_Witness ==
    \E k, j \in DOMAIN ledger :
        /\ ~ledger[k].manual /\ ~ledger[j].manual
        /\ ledger[k].error = "send failed"
        /\ ledger[j].status = "sent"

\* C10 as stated: after cancelForInvoice no reminder of the invoice is in a
\* non-terminal status.
C10_CancelsEveryNonTerminal ==
    [][\A i \in InvoiceIds :
          CancelForInvoice(i) =>
              \A k \in DOMAIN ledger' : ledger'[k].invoiceId = i => ledger'[k].status \in Terminal]_vars

\* C10 as amended: cancelForInvoice turns every reminder of the invoice that is
\* in status scheduled into cancelled, changes no other reminder (pending and
\* manual ones of the invoice included), returns the number it cancelled, and
\* leaves no reminder of the invoice in status scheduled.
C10_CancelsEveryScheduled ==
    [][\A i \in InvoiceIds :
          CancelForInvoice(i) =>
              /\ \A k \in DOMAIN ledger :
                     IF ledger[k].invoiceId = i /\ ledger[k].status = "scheduled"
                     THEN ledger'[k].status = "cancelled"
                     ELSE ledger'[k] = ledger[k]
              /\ cancelledCount(ledger, i) =
                     Cardinality({k \in DOMAIN ledger : ledger'[k] # ledger[k]})
              /\ cancelledCount(ledger', i) = 0]_vars

C10_Witness ==
    \E k, j \in DOMAIN ledger :
        /\ InvoiceOf(k) = InvoiceOf(j) /\ ~Paid(InvoiceOf(k)) /\ Exists(InvoiceOf(k))
        /\ ~ledger[k].manual /\ ledger[k].status = "cancelled"
        /\ ledger[j].status = "pending"

\* C11: cancelForInvoice is idempotent: right after a call, a second call for the
\* same invoice returns 0 and changes no reminder, and the call changes no
\* reminder of a different invoice.
C11_CancelIdempotent ==
    [][\A i \in InvoiceIds :
          CancelForInvoice(i) =>
              /\ cancelledCount(ledger', i) = 0
              /\ cancelScheduledReminders(ledger', i) = ledger'
              /\ \A k \in DOMAIN ledger : ledger[k].invoiceId # i => ledger'[k] = ledger[k]]_vars

C11_Witness ==
    \E k, j \in DOMAIN ledger :
        /\ InvoiceOf(k) # InvoiceOf(j)
        /\ ~Paid(InvoiceOf(k)) /\ ~ledger[k].manual /\ ledger[k].status = "cancelled"
        /\ ledger[j].status = "scheduled"

\* C12: sendManualReminder reports the delivery outcome to its caller: the
\* caller is shown success exactly when the manual reminder ended in status sent
\* (a failed send and a reminder cancelled for a paid invoice are shown as errors).
C12_CallerSeesOutcome ==
    \A al \in alerts :
        al.reminder \in DOMAIN ledger =>
            (al.kind = "success" <=> ledger[al.reminder].status = "sent")

\* C13: sendManualReminder bypasses business-hours gating: a manual reminder for
\* an existing unpaid invoice is handed to the Notification Channel in the call
\* that creates it, whatever the time of day.
C13_ManualBypassesGating ==
    [][\A k \in DOMAIN ledger' \ DOMAIN ledger :
          (ledger'[k].manual /\ Exists(ledger'[k].invoiceId) /\ ~Paid(ledger'[k].invoiceId))
              => (ledger'[k].status = "pending" /\ \E a \in inflight' : a.id = k)]_vars

\* C14: rescheduleForInvoice leaves the ledger that cancelForInvoice followed by
\* scheduleForInvoice leaves: every reminder of the invoice that was scheduled is
\* cancelled, and the only scheduled reminders of the invoice are the ones newly
\* derived from its current due date.
C14_RescheduleIsCancelThenSchedule ==
    [][\A i \in InvoiceIds :
          RescheduleForInvoice(i) =>
              LET afterCancel == cancelScheduledReminders(ledger, i)
                  new == scheduleRemindersForInvoice(i, getInvoice(i), settings, now)
              IN  /\ ledger' = afterCancel \o (IF Exists(i) /\ settings.enabled THEN new ELSE << >>)
                  /\ \A k \in DOMAIN ledger :
                         (ledger[k].invoiceId = i /\ ledger[k].status = "scheduled")
                             => ledger'[k].status = "cancelled"
                  /\ \A k \in DOMAIN ledger' :
                         (ledger'[k].invoiceId = i /\ ledger'[k].status = "scheduled")
                             => /\ k \notin DOMAIN ledger
                                /\ \E n \in DOMAIN new : ledger'[k] = new[n]]_vars

C14_Witness ==
    \E k, j \in DOMAIN ledger :
        /\ k < j /\ InvoiceOf(k) = InvoiceOf(j) /\ ~Paid(InvoiceOf(k))
        /\ ~ledger[k].manual /\ ledger[k].status = "cancelled" /\ ledger[k].attempts = 0
        /\ ~ledger[j].manual /\ ledger[j].status = "scheduled" /\ ledger[j].attempts = 0
        /\ SameKey(ledger[k], ledger[j])

\* C15: processDue is safe to run concurrently with scheduleForInvoice: a
\* derivation run (scheduleForInvoice or the hourly scan) changes no reminder
\* already in the ledger and creates no reminder with the key of a reminder of
\* the same invoice that is pending.
C15_DerivationSafeDuringDispatch ==
    [][((\E i \in InvoiceIds : ScheduleForInvoice(i, MaxLedger)) \/ ScheduleRemindersForUnpaidInvoices(MaxLedger)) =>
          /\ \A k \in DOMAIN ledger : ledger'[k] = ledger[k]
          /\ \A n \in DOMAIN ledger' \ DOMAIN ledger :
                 \A k \in DOMAIN ledger :
                     (ledger[k].status = "pending" /\ ledger[k].invoiceId = ledger'[n].invoiceId)
                         => ~SameKey(ledger[k], ledger'[n])]_vars

\* C16: derivation, through every entry point, creates no reminder when the
\* policy is disabled, when the invoice is paid, or when the invoice has no due
\* date.
C16_NoDerivationWhenSkipped ==
    [][\A n \in DOMAIN ledger' \ DOMAIN ledger :
          ~ledger'[n].manual =>
              /\ settings.enabled
              /\ ~Paid(ledger'[n].invoiceId)
              /\ getInvoice(ledger'[n].invoiceId).dueDate # Undefined]_vars

\* reminders a step adds to the ledger through derivation
Derived(led, ledAfter) == {n \in DOMAIN ledAfter \ DOMAIN led : ~ledAfter[n].manual}

\* C17: derivation creates no reminder for an invoice that already has
\* maxRemindersPerInvoice or more non-cancelled reminders in the ledger.
C17_CapOnLedgerReminders ==
    [][\A n \in Derived(ledger, ledger') :
          Cardinality({k \in DOMAIN ledger : /\ ledger[k].invoiceId = ledger'[n].invoiceId
                                             /\ ledger[k].status # "cancelled"})
              < settings.maxReminders]_vars

\* C18 as stated: for the policy {before 7, 3; after 1, 7; maxReminders 10} and
\* an unpaid invoice due on day 10, one derivation run on day 1 with an empty
\* ledger creates exactly beforeDue/7 (day 3), beforeDue/3 (day 7) and onDue
\* (day 10), and no afterDue reminder.
C18_ExampleCreatesThree ==
    [][(/\ ledger = << >> /\ now = Day(1) /\ settings = ExamplePolicy(10)
        /\ ScheduleRemindersForUnpaidInvoices(MaxDerived)) =>
          ledger' = << scheduleReminder(1, "beforeDue", Day(3), 7),
                       scheduleReminder(1, "beforeDue", Day(7), 3),
                       scheduleReminder(1, "onDue", Day(10), Undefined) >>]_vars

\* C18 as amended: the same run creates exactly five reminders: beforeDue/7
\* (day 3), beforeDue/3 (day 7), onDue (day 10), afterDue/1 (day 11) and
\* afterDue/7 (day 17).
C18_ExampleCreatesFive ==
    [][(/\ ledger = << >> /\ now = Day(1) /\ settings = ExamplePolicy(10)
        /\ ScheduleRemindersForUnpaidInvoices(MaxDerived)) =>
          ledger' = << scheduleReminder(1, "beforeDue", Day(3), 7),
                       scheduleReminder(1, "beforeDue", Day(7), 3),
                       scheduleReminder(1, "onDue", Day(10), Undefined),
                       scheduleReminder(1, "afterDue", Day(11), 1),
                       scheduleReminder(1, "afterDue", Day(17), 7) >>]_vars

C18_Witness ==
    /\ now = Day(1) /\ settings = ExamplePolicy(10)
    /\ Len(ledger) = 5
    /\ \A k \in DOMAIN ledger : ledger[k].invoiceId = 1 /\ ledger[k].status = "scheduled"
    /\ ledger[4].type = "afterDue" /\ ledger[5].type = "afterDue"

\* C19: derivation never creates a reminder whose key is the key of a reminder
\* of the same invoice that has already reached status sent.
C19_NoDerivationOfSentKey ==
    [][\A n \in Derived(ledger, ledger') :
          \A k \in DOMAIN ledger :
              (ledger[k].status = "sent" /\ ~ledger[k].manual
               /\ ledger[k].invoiceId = ledger'[n].invoiceId)
                  => ~SameKey(ledger[k], ledger'[n])]_vars

\* C20: a beforeDue reminder is created only when dueDate - offsetDays is
\* strictly later than the evaluation time, an onDue reminder only when
\* dueDate >= the evaluation time; so after the due date has passed no
\* derivation run creates an onDue reminder.
C20_CreationTimeGated ==
    [][\A n \in Derived(ledger, ledger') :
          LET r == ledger'[n]
              dueDate == DueMinute(getInvoice(r.invoiceId))
          IN  /\ r.type = "beforeDue" =>
                     (r.nextAttempt = dueDate - r.days * MinutesPerDay /\ r.nextAttempt > now)
              /\ r.type = "onDue" => (r.nextAttempt = dueDate /\ dueDate >= now)
              /\ now > dueDate => r.type = "afterDue"]_vars

C20_Witness ==
    /\ now = Day(3)
    /\ \E k \in DOMAIN ledger :
           ledger[k].invoiceId = 1 /\ ledger[k].type = "beforeDue" /\ ledger[k].days = 3
    /\ \E k \in DOMAIN ledger : ledger[k].invoiceId = 1 /\ ledger[k].type = "onDue"
    /\ ~\E k \in DOMAIN ledger :
           ledger[k].invoiceId = 1 /\ ledger[k].type = "beforeDue" /\ ledger[k].days = 7

\* C21: afterDue reminders have no future-time constraint: a derived afterDue
\* reminder starts as scheduled with attempts = 0 and nextAttempt = dueDate +
\* offsetDays, also when that target has already elapsed, and then the next
\* processDue run selects it.
C21_ElapsedAfterDueIsCreatedAndDue ==
    [][\A n \in Derived(ledger, ledger') :
          LET r == ledger'[n]
              target == DueMinute(getInvoice(r.invoiceId)) + r.days * MinutesPerDay
          IN  r.type = "afterDue" =>
                  /\ r.status = "scheduled" /\ r.attempts = 0 /\ r.nextAttempt = target
                  /\ target <= now => n \in dueReminders']_vars

C21_Witness ==
    \E k \in DOMAIN ledger :
        /\ ~ledger[k].manual /\ ledger[k].type = "afterDue"
        /\ ledger[k].nextAttempt < now
        /\ ledger[k].status = "pending" /\ ledger[k].attempts = 1

\* C22 as stated: after a failed attempt that leaves attempts = n < maxRetries
\* the reminder is scheduled again at failure time + 2^n minutes with the error
\* stored.
C22_BackoffTwoToTheN ==
    [][\A a \in inflight :
          (DeliveryFails(a) /\ lessThan(ledger[a.id].attempts, maxRetries)) =>
              /\ ledger'[a.id].status = "scheduled"
              /\ ledger'[a.id].nextAttempt = now + 2 ^ ledger[a.id].attempts
              /\ ledger'[a.id].error = "send failed"]_vars

\* C22 as amended: after a failed attempt that leaves attempts = n <= maxRetries
\* the reminder is scheduled again at failure time + 2^(n-1) minutes (1, 2, 4)
\* with the error stored; after the failure that leaves attempts = maxRetries + 1
\* it is failed.
C22_BackoffTwoToTheNMinusOne ==
    [][\A a \in inflight :
          DeliveryFails(a) =>
              LET n == ledger[a.id].attempts
              IN  /\ ledger'[a.id].error = "send failed"
                  /\ (n >= 1 /\ n <= maxRetries) =>
                         /\ ledger'[a.id].status = "scheduled"
                         /\ ledger'[a.id].nextAttempt = now + 2 ^ (n - 1)
                  /\ n > maxRetries => ledger'[a.id].status = "failed"]_vars

C22_Witness ==
    \E k \in DOMAIN ledger :
        /\ ledger[k].status = "scheduled" /\ ledger[k].error = "send failed"
        /\ ledger[k].attempts = maxRetries
        /\ ledger[k].nextAttempt = now + 4

\* C23: with gating enabled a due reminder is attempted only at a minute of the
\* day m with start <= m < end; with gating disabled at every m.
C23_HalfOpenWindow ==
    [][\A k \in DOMAIN ledger :
          (ledger[k].status = "scheduled" /\ ledger'[k].status = "pending") =>
              \/ ~settings.bhEnabled
              \/ settings.bhStart <= MinuteOfDay(now) /\ MinuteOfDay(now) < settings.bhEnd]_vars

C26_SentWithinMaxReminders ==
    \A i \in InvoiceIds :
        Cardinality({k \in DOMAIN ledger :
                        ledger[k].invoiceId = i /\ ~ledger[k].manual /\ ledger[k].status = "sent"})
            <= settings.maxReminders

\* C24: when processDue handles a due reminder whose invoice no longer exists,
\* the reminder becomes cancelled with the error recorded, no delivery is
\* attempted, attempts is not incremented, and no later step touches it again.
C24_MissingInvoiceCancels ==
    [][/\ ProcessDueReminders =>
             \A k \in dueReminders :
                 ~Exists(ledger[k].invoiceId) =>
                     /\ ledger'[k].status = "cancelled"
                     /\ ledger'[k].error = "Invoice not found"
                     /\ ledger'[k].attempts = ledger[k].attempts
                     /\ ~\E a \in inflight' : a.id = k
       /\ \A k \in DOMAIN ledger :
             ledger[k].error = "Invoice not found" =>
                 (ledger'[k] = ledger[k] /\ k \notin dueReminders')]_vars

C24_Witness ==
    \E k \in DOMAIN ledger :
        /\ ~Exists(InvoiceOf(k))
        /\ ledger[k].status = "cancelled" /\ ledger[k].error = "Invoice not found"
        /\ ledger[k].attempts = 1

\* C27: while the reminder settings have enabled = false, processDue starts no
\* delivery: no scheduled reminder becomes pending.
C27_DisabledSendsNothing ==
    [][~settings.enabled =>
          /\ inflight' \subseteq inflight
          /\ \A k \in DOMAIN ledger :
                 ~(ledger[k].status = "scheduled" /\ ledger'[k].status = "pending")]_vars

\* C29: a reminder whose delivery succeeded is never delivered again: when a
\* bookkeeping call after the successful send throws, the reminder is neither
\* returned to scheduled nor marked failed.
C29_NoRetryAfterDelivery ==
    [][\A a \in inflight, step \in BookkeepingSteps :
          BookkeepingFails(a, step) => ledger'[a.id].status \notin {"scheduled", "failed"}]_vars

\* C28: business-hours deferral does not postpone a reminder for ever: with
\* gating enabled and the scheduler running, whatever the configured window, a
\* due scheduled reminder of an existing unpaid invoice is eventually attempted
\* (it leaves scheduled for pending).
C28_DeferralEnds ==
    \A k \in 1..MaxLedger :
        (/\ k \in DOMAIN ledger
         /\ IsDue(ledger[k], now)
         /\ Exists(ledger[k].invoiceId)
         /\ getInvoice(ledger[k].invoiceId).status # "paid")
        ~> (k \in DOMAIN ledger /\ ledger[k].status = "pending")

\* C30: after any sequence of accepted or rejected addPayment and removePayment
\* calls every stored invoice has 0 <= paidAmount <= total, remainingAmount =
\* total - paidAmount, and paidAmount equal to the sum of the amounts in its
\* stored paymentHistory.
C30_PaymentTotalsConsistent ==
    \A i \in InvoiceIds :
        Exists(i) =>
            /\ 0 <= getInvoice(i).paidAmount
            /\ getInvoice(i).paidAmount <= getInvoice(i).total
            /\ getInvoice(i).remainingAmount = getInvoice(i).total - getInvoice(i).paidAmount
            /\ getInvoice(i).paidAmount = sumAmounts(getInvoice(i).paymentHistory)
====
